---- MODULE Spec2Model ----
(***************************************************************************)
(* Adaptive quiz engine of the cancer-risk screening application.          *)
(*                                                                         *)
(* The model follows the multi-candidate Quiz component                    *)
(* (src/src/components/UploadSection.tsx, lines 279-771).  The component   *)
(* keeps one React state cell `state`; every handler is a closure over the *)
(* value `state` had in the render that created the handler, and every     *)
(* setState(prev => ...) is a functional update applied to the committed   *)
(* state.  A handler that awaits (supabase calls) is suspended and resumed *)
(* later with the same closure: reads of `state.x` after an await return   *)
(* the value of the render in which the answer was submitted.              *)
(***************************************************************************)
EXTENDS Integers, Sequences, FiniteSets, Bags, TLC

VARIABLES
    cfg,        \* which question repository content was loaded (fetchQuestions)
    state,      \* the committed QuizState of the component
    pending,    \* suspended async continuations (awaiting supabase)
    user,       \* supabase.auth.getUser() yields a user
    mounted,    \* the Quiz route is still mounted (no navigate("/login") yet)
    store,      \* bag of rows inserted into user_responses since the last restart
    lookups,    \* queries sent to risk_assessments since the last restart
    toasts,     \* bag of notifications shown since the last restart
    submitted,  \* history: answers passed to handleResponse since the last restart
    activated,  \* history: values given to currentCancerType since the last restart
    scored,     \* history: calculateRiskScore invocations since the last restart
    completions, \* history: handlers that reached their final setState since then
    simple,     \* the state cells of the single-candidate Quiz component
    stack,      \* the synchronous calls between loadNextCancerType and
                \* loadQuestionsForCancerType that one handler is running
    upload      \* the state cells and timers of the UploadSection component

vars == <<cfg, state, pending, user, mounted, store, lookups, toasts,
          submitted, activated, scored, completions, simple, stack, upload>>

----------------------------------------------------------------------------
(* Bounds of the model *)

\* handlers that may be suspended (awaiting supabase) at the same time
\* under Spec
MaxInFlight == 1

\* the same bound under SpecOverlap, where a second handler may reach its
\* first await while an earlier one is still suspended
MaxOverlap == 2

\* nested calls the engine allows before it throws RangeError (Maximum call
\* stack size exceeded)
MaxStack == 4

\* longest candidate queue of the recursion between loadNextCancerType and
\* loadQuestionsForCancerType
MaxQueue == 2

\* largest hint weight of the general questions the single-candidate
\* detector is applied to
MaxHint == 2

\* files the user selects in UploadSection
MaxFiles == 2

\* uploads the user starts in UploadSection
MaxUploads == 2

\* answers given to one question set of the branching resolver (a branch rule
\* may lead back to its own question)
MaxAnswers == 3

\* largest question weight the scorer is applied to
MaxWeight == 4

\* range questions take min and max from -MaxRange..MaxRange, and numeric
\* answers reach one step beyond on both sides
MaxRange == 2

----------------------------------------------------------------------------
(* JavaScript values: answers are string | number *)

Str(s) == [t |-> "str", s |-> s, n |-> 0]
Num(n) == [t |-> "num", s |-> "", n |-> n]

\* JavaScript numbers that scoring can produce: finite integers, NaN, +-Infinity
Fin(n) == [k |-> "fin", v |-> n]
NaN == [k |-> "nan", v |-> 0]
PosInf == [k |-> "inf", v |-> 0]
NegInf == [k |-> "ninf", v |-> 0]

Numerals == <<"0", "1", "2", "3", "4", "5", "6", "7", "8", "9", "10",
              "11", "12", "13", "14", "15", "16", "17", "18", "19", "20">>

MaxNumeral == Len(Numerals) - 1

\* Number.prototype.toString on the integers the model uses
NumToString(n) ==
    IF n >= 0 THEN Numerals[n + 1] ELSE "-" \o Numerals[(0 - n) + 1]

\* response.toString()
toString(r) == IF r.t = "str" THEN r.s ELSE NumToString(r.n)

\* Number(response): numeric strings parse, "" is 0, anything else is NaN
ToNumber(r) ==
    IF r.t = "num" THEN Fin(r.n)
    ELSE IF r.s = "" THEN Fin(0)
    ELSE IF \E n \in (0 - MaxNumeral)..MaxNumeral : NumToString(n) = r.s
         THEN Fin(CHOOSE n \in (0 - MaxNumeral)..MaxNumeral : NumToString(n) = r.s)
         ELSE NaN

\* JavaScript truthiness of an answer: "" and 0 are falsy
Truthy(r) == IF r.t = "str" THEN r.s # "" ELSE r.n # 0

Sign(n) == IF n > 0 THEN 1 ELSE IF n < 0 THEN 0 - 1 ELSE 0

\* Math.round(p / q) for q # 0: nearest integer, halves towards +Infinity
RoundDiv(p, q) ==
    IF q > 0 THEN (2 * p + q) \div (2 * q)
    ELSE (2 * (0 - p) + (0 - q)) \div (2 * (0 - q))

\* Math.round((num / den) * w) in IEEE arithmetic on integers num, den, w
RoundScaled(num, den, w) ==
    IF den # 0 THEN Fin(RoundDiv(num * w, den))
    ELSE IF num = 0 \/ w = 0 THEN NaN
    ELSE IF Sign(num) * Sign(w) > 0 THEN PosInf ELSE NegInf

\* totalScore += x
JsAdd(a, b) ==
    IF a.k = "nan" \/ b.k = "nan" THEN NaN
    ELSE IF a.k = "fin" /\ b.k = "fin" THEN Fin(a.v + b.v)
    ELSE IF a.k = "fin" THEN b
    ELSE IF b.k = "fin" THEN a
    ELSE IF a.k = b.k THEN a ELSE NaN

----------------------------------------------------------------------------
(* Questions *)

NoHints == [x \in {} |-> 0]
NoLogic == [x \in {} |-> 0]

\* options JSON of a question: {min, max, step} | {options: [...]} plus hints
Opts(hasMinMax, min, max, choices, hints) ==
    [hasMinMax |-> hasMinMax, min |-> min, max |-> max,
     options |-> choices, cancer_type_hints |-> hints]

Question(id, type, weight, category, options, logic) ==
    [id |-> id, question_type |-> type, weight |-> weight,
     category |-> category, options |-> options, next_question_logic |-> logic]

BoolQ(id, weight, category, hints, logic) ==
    Question(id, "boolean", weight, category, Opts(FALSE, 0, 0, <<>>, hints), logic)

RangeQ(id, weight, category, min, max) ==
    Question(id, "range", weight, category, Opts(TRUE, min, max, <<>>, NoHints), NoLogic)

SelectQ(id, weight, category, choices) ==
    Question(id, "select", weight, category, Opts(FALSE, 0, 0, choices, NoHints), NoLogic)

\* Array.prototype.findIndex(q => q.id === id), 0-based, -1 when absent
FindIndex(qs, id) ==
    IF \E i \in 1..Len(qs) : qs[i].id = id
    THEN (CHOOSE i \in 1..Len(qs) :
            qs[i].id = id /\ \A j \in 1..(i - 1) : qs[j].id # id) - 1
    ELSE 0 - 1

\* Array.prototype.indexOf on a list of strings, 0-based, -1 when absent
IndexOf(xs, x) ==
    IF \E i \in 1..Len(xs) : xs[i] = x
    THEN (CHOOSE i \in 1..Len(xs) :
            xs[i] = x /\ \A j \in 1..(i - 1) : xs[j] # x) - 1
    ELSE 0 - 1

\* Array.prototype.includes
Includes(xs, x) == \E i \in 1..Len(xs) : xs[i] = x

----------------------------------------------------------------------------
(* Scorer *)

\* a scorer that counts every answered boolean question as positive
BooleanContributionAnyAnswer(question, response) == Fin(question.weight)

BooleanContributionTruthy(question, response) ==
    IF response # Str("No") THEN Fin(question.weight) ELSE Fin(0)

\* case 'boolean'
BooleanContribution(question, response) ==
    IF response = Str("Yes") THEN Fin(question.weight) ELSE Fin(0)

\* case 'range'
RangeContribution(question, response) ==
    IF question.options.hasMinMax
    THEN LET range == question.options.max - question.options.min
             number == ToNumber(response)
         IN  IF number.k = "nan" THEN NaN
             ELSE RoundScaled(number.v - question.options.min, range, question.weight)
    ELSE Fin(0)

SelectContributionByLength(question, response) ==
    IF Len(question.options.options) > 0
    THEN LET options == question.options.options
             responseIndex == IndexOf(options, toString(response))
         IN  IF responseIndex >= 0
             THEN RoundScaled(responseIndex, Len(options), question.weight)
             ELSE Fin(0)
    ELSE Fin(0)

SelectContributionUnchecked(question, response) ==
    IF Len(question.options.options) > 0
    THEN LET options == question.options.options
             responseIndex == IndexOf(options, toString(response))
         IN  RoundScaled(responseIndex, Len(options) - 1, question.weight)
    ELSE Fin(0)

\* case 'select'
SelectContribution(question, response) ==
    IF Len(question.options.options) > 0
    THEN LET options == question.options.options
             responseIndex == IndexOf(options, toString(response))
         IN  IF responseIndex >= 0
             THEN RoundScaled(responseIndex, Len(options) - 1, question.weight)
             ELSE Fin(0)
    ELSE Fin(0)

\* what one question adds to totalScore
Contribution(question, allResponses) ==
    IF question.id \notin DOMAIN allResponses THEN Fin(0)
    ELSE LET response == allResponses[question.id] IN
         IF ~Truthy(response) THEN Fin(0)
         ELSE IF question.question_type = "boolean"
              THEN BooleanContribution(question, response)
         ELSE IF question.question_type = "range"
              THEN RangeContribution(question, response)
         ELSE IF question.question_type = "select"
              THEN SelectContribution(question, response)
         ELSE Fin(0)

RECURSIVE calculateRiskScore(_, _)
calculateRiskScore(allResponses, questions) ==
    IF questions = <<>> THEN Fin(0)
    ELSE LET n == Len(questions) IN
         JsAdd(calculateRiskScore(allResponses, SubSeq(questions, 1, n - 1)),
               Contribution(questions[n], allResponses))

----------------------------------------------------------------------------
(* Candidate Detector *)

\* the labels the accumulator is seeded with, in seeding order
CancerTypes == <<"skin", "kidney", "brain", "oral", "breast">>

\* the guard of the accumulation loop: `!response || response === "No"`
IsNegative(response) == ~Truthy(response) \/ response = Str("No")

\* cancerTypeScores[cancerType] after the accumulation loop
RECURSIVE cancerTypeScores(_, _, _)
cancerTypeScores(cancerType, generalResponses, questions) ==
    IF questions = <<>> THEN 0
    ELSE LET question == Head(questions)
             rest == cancerTypeScores(cancerType, generalResponses, Tail(questions))
         IN  IF question.id \notin DOMAIN generalResponses THEN rest
             ELSE IF IsNegative(generalResponses[question.id]) THEN rest
             ELSE IF cancerType \in DOMAIN question.options.cancer_type_hints
                  THEN question.options.cancer_type_hints[cancerType] + rest
                  ELSE rest

\* labels ordered by descending score, equal scores keep their earlier order
RECURSIVE SortDescending(_, _)
SortDescending(labels, scoreOf) ==
    IF labels = <<>> THEN <<>>
    ELSE LET best == CHOOSE i \in 1..Len(labels) :
                        /\ \A j \in 1..Len(labels) : scoreOf[labels[j]] <= scoreOf[labels[i]]
                        /\ \A j \in 1..(i - 1) : scoreOf[labels[j]] < scoreOf[labels[i]]
         IN  <<labels[best]>> \o
             SortDescending(SubSeq(labels, 1, best - 1) \o
                            SubSeq(labels, best + 1, Len(labels)), scoreOf)

\* the detector of the multi-candidate component:
\* { detectedTypes, hasPositiveResponses }
analyzeGeneralResponses(responses, generalQuestions) ==
    LET known == {CancerTypes[i] : i \in 1..Len(CancerTypes)}
        scoreOf == [c \in known |-> cancerTypeScores(c, responses, generalQuestions)]
        positive == SelectSeq(CancerTypes, LAMBDA c : scoreOf[c] > 0)
    IN  [detectedTypes |->
            IF positive = <<>> THEN <<"general">>
            ELSE SortDescending(positive, scoreOf),
         hasPositiveResponses |->
            \E i \in 1..Len(generalQuestions) :
                /\ generalQuestions[i].id \in DOMAIN responses
                /\ ~IsNegative(responses[generalQuestions[i].id])]

----------------------------------------------------------------------------
(* Question Repository contents the component may load *)

\* 1: the two-question screening with one skin follow-up
\* 2: three hinted screening questions; skin and brain have follow-ups,
\*    kidney has none
\* 3: branching rules, a select question, a positive answer without hints
Repository ==
    << [general |-> << BoolQ(1, 10, "general", [c \in {"skin"} |-> 5], NoLogic),
                       BoolQ(2, 10, "general", NoHints, NoLogic) >>,
        specialized |-> << RangeQ(3, 20, "skin", 0, 10) >>],
       [general |-> << BoolQ(1, 4, "general", [c \in {"skin"} |-> 3], NoLogic),
                       BoolQ(2, 4, "general", [c \in {"kidney"} |-> 2], NoLogic),
                       BoolQ(3, 4, "general", [c \in {"brain"} |-> 1], NoLogic) >>,
        specialized |-> << BoolQ(10, 6, "skin", NoHints, NoLogic),
                           BoolQ(30, 8, "brain", NoHints, NoLogic) >>],
       [general |-> << BoolQ(1, 5, "general", NoHints,
                             [k \in {"No", "default"} |->
                                 IF k = "No" THEN 3 ELSE 2]),
                       BoolQ(2, 5, "general", [c \in {"oral"} |-> 2], NoLogic),
                       SelectQ(3, 9, "general", <<"No", "Sometimes", "Often">>) >>,
        specialized |-> << BoolQ(20, 7, "oral", NoHints,
                                 [k \in {"No"} |-> 99]),
                           RangeQ(21, 6, "oral", 1, 5) >>] >>

\* the answers the question view can hand to onResponse for a question
AnswersFor(question) ==
    IF question.question_type = "boolean" THEN {Str("Yes"), Str("No")}
    ELSE IF question.question_type = "range"
         THEN {Num(question.options.min),
               Str(NumToString((question.options.min + question.options.max) \div 2)),
               Num(question.options.max)}
    ELSE {Str(question.options.options[i]) : i \in 1..Len(question.options.options)}

----------------------------------------------------------------------------
(* Session state *)

null == "null"
NoAssessment == <<>>
NoResponses == <<>>

\* useState<QuizState>({...})
InitialState ==
    [isLoading |-> TRUE,
     questions |-> <<>>,
     generalQuestions |-> <<>>,
     specializedQuestions |-> <<>>,
     currentQuestionIndex |-> 0,
     responses |-> NoResponses,
     quizCompleted |-> FALSE,
     score |-> Fin(0),
     riskAssessment |-> NoAssessment,
     quizPhase |-> "general",
     detectedCancerTypes |-> <<>>,
     currentCancerType |-> null,
     allCancerTypesProcessed |-> FALSE,
     cancerTypesQueue |-> <<>>,
     hasPositiveResponses |-> FALSE]

\* the useState cells of the single-candidate component; asked and queried
\* are histories: the question ids it has shown an answer for, and the
\* cancer_type filters of the tier queries it has sent
SimpleInitial ==
    [isLoading |-> TRUE,
     questions |-> <<>>,
     generalQuestions |-> <<>>,
     specializedQuestions |-> <<>>,
     currentQuestionIndex |-> 0,
     responses |-> NoResponses,
     quizCompleted |-> FALSE,
     score |-> Fin(0),
     quizPhase |-> "general",
     detectedCancerType |-> null,
     asked |-> <<>>,
     queried |-> <<>>]

\* no call of loadNextCancerType or loadQuestionsForCancerType is running;
\* reads are the queues the loadNextCancerType calls of one handler have
\* read, st is the state their setState calls have built
NoCalls ==
    [pc |-> "idle", depth |-> 0, cancerType |-> null, reads |-> <<>>,
     st |-> InitialState]

\* the useState cells of UploadSection (file is 0 for null, else the number
\* of the selected file), the running timer with the file and the progress
\* its closure holds, and histories: the files selected and the uploads
\* started so far, the files resetUpload has discarded, and the calls of
\* onUploadComplete
UploadInitial ==
    [file |-> 0, uploading |-> FALSE, progress |-> 0, error |-> FALSE,
     timer |-> "none", currentProgress |-> 0, closureFile |-> 0,
     selected |-> 0, started |-> 0, discarded |-> {}, delivered |-> <<>>]

\* { ...responses, [questionId]: response }
Put(responses, questionId, response) ==
    [q \in (DOMAIN responses) \cup {questionId} |->
        IF q = questionId THEN response ELSE responses[q]]

\* the keys of Object.entries(allResponses): integer keys in ascending order
RECURSIVE Ascending(_)
Ascending(ids) ==
    IF ids = {} THEN <<>>
    ELSE LET least == CHOOSE x \in ids : \A y \in ids : x <= y
         IN  <<least>> \o Ascending(ids \ {least})

\* the row one insert writes for an entry of the mapping
Row(allResponses, questionId) ==
    [question_id |-> questionId, response |-> toString(allResponses[questionId])]

\* the rows a mapping holds, in iteration order
RowsOf(allResponses) ==
    LET keys == Ascending(DOMAIN allResponses)
    IN  [i \in 1..Len(keys) |-> Row(allResponses, keys[i])]

\* a handler suspended at its first await; s is the state of its closure,
\* responses the mapping it passes to saveAllResponses, full the mapping
\* including the answer whose submission started the handler
Call(kind, responses, full, s) ==
    [kind |-> kind, pc |-> "getUser", snap |-> s, resp |-> responses,
     full |-> full, todo |-> <<>>, written |-> <<>>,
     failed |-> FALSE, score |-> Fin(0)]

\* toast({title: ...})
Toast(shown, title) == shown (+) SetToBag({title})

\* what the synchronous part of a handler did: the state after its setState
\* calls, the continuations it left suspended, the candidates it made
\* active, and the notifications it raised
Effect(st, spawn, act, tst) ==
    [st |-> st, spawn |-> spawn, act |-> act, toasts |-> tst]

----------------------------------------------------------------------------
(* Phase / queue controller *)

SpecializedFor(s, cancerType) ==
    SelectSeq(s.specializedQuestions, LAMBDA q : q.category = cancerType)

RECURSIVE loadNextCancerType(_, _, _)

\* s is the closure's state, st the state being built by the setState calls
loadQuestionsForCancerType(s, st, full, cancerType) ==
    LET specializedQuestionsForType == SpecializedFor(s, cancerType)
    IN  IF Len(specializedQuestionsForType) > 0
        THEN Effect([st EXCEPT !.questions = specializedQuestionsForType,
                               !.currentQuestionIndex = 0,
                               !.quizPhase = "specialized"],
                    <<>>, <<>>, EmptyBag)
        ELSE loadNextCancerType(s, st, full)

\* The queue is read from the closure's state s, so a call made from
\* loadQuestionsForCancerType in the same handler sees the same queue again.
\* When the head of that queue has no questions the two functions call each
\* other without end on the same s; the engine stops that with a RangeError
\* deep in the stack, which the innermost async frame turns into a rejected
\* promise nobody awaits.  What remains is the first frame's setState.
loadNextCancerType(s, st, full) ==
    IF Len(s.cancerTypesQueue) > 0
    THEN LET nextType == s.cancerTypesQueue[1]
             remainingQueue == Tail(s.cancerTypesQueue)
             st1 == [st EXCEPT !.currentCancerType = nextType,
                               !.cancerTypesQueue = remainingQueue]
             e == IF Len(SpecializedFor(s, nextType)) > 0
                  THEN loadQuestionsForCancerType(s, st1, full, nextType)
                  ELSE Effect(st1, <<>>, <<>>, EmptyBag)
         IN  Effect(e.st, e.spawn, <<nextType>> \o e.act,
                    Toast(e.toasts, "Moving to Next Section"))
    ELSE Effect(st, <<Call("next", s.responses, full, s)>>, <<>>, EmptyBag)

\* a controller that queues every candidate, the first one included
processGeneralPhaseCompletionFullQueue(s, st, responses) ==
    LET analysis == analyzeGeneralResponses(responses, s.generalQuestions)
        detectedTypes == analysis.detectedTypes
        specificTypes == SelectSeq(detectedTypes, LAMBDA t : t # "general")
        typesToProcess == IF Len(specificTypes) > 0 THEN specificTypes
                          ELSE detectedTypes
    IN  IF ~analysis.hasPositiveResponses
        THEN Effect(st, <<Call("healthy", responses, responses, s)>>, <<>>, EmptyBag)
        ELSE LET st1 == [st EXCEPT !.detectedCancerTypes = typesToProcess,
                                   !.cancerTypesQueue = typesToProcess,
                                   !.currentCancerType = typesToProcess[1],
                                   !.hasPositiveResponses = TRUE]
                 e == loadQuestionsForCancerType(s, st1, responses, typesToProcess[1])
             IN  Effect(e.st, e.spawn, <<typesToProcess[1]>> \o e.act,
                        Toast(e.toasts, "Phase Complete"))

\* a controller that keeps "general" in front of the detected candidates
processGeneralPhaseCompletionKeepsGeneral(s, st, responses) ==
    LET analysis == analyzeGeneralResponses(responses, s.generalQuestions)
        detectedTypes == analysis.detectedTypes
        typesToProcess == IF detectedTypes[1] = "general" THEN detectedTypes
                          ELSE <<"general">> \o detectedTypes
    IN  IF ~analysis.hasPositiveResponses
        THEN Effect(st, <<Call("healthy", responses, responses, s)>>, <<>>, EmptyBag)
        ELSE LET st1 == [st EXCEPT !.detectedCancerTypes = typesToProcess,
                                   !.cancerTypesQueue = Tail(typesToProcess),
                                   !.currentCancerType = typesToProcess[1],
                                   !.hasPositiveResponses = TRUE]
                 e == loadQuestionsForCancerType(s, st1, responses, typesToProcess[1])
             IN  Effect(e.st, e.spawn, <<typesToProcess[1]>> \o e.act,
                        Toast(e.toasts, "Phase Complete"))

\* a controller that never takes the healthy branch
processGeneralPhaseCompletionNoHealthy(s, st, responses) ==
    LET detectedTypes == analyzeGeneralResponses(responses, s.generalQuestions).detectedTypes
        st1 == [st EXCEPT !.detectedCancerTypes = detectedTypes,
                          !.cancerTypesQueue = Tail(detectedTypes),
                          !.currentCancerType = detectedTypes[1],
                          !.hasPositiveResponses = TRUE]
        e == loadQuestionsForCancerType(s, st1, responses, detectedTypes[1])
    IN  Effect(e.st, e.spawn, <<detectedTypes[1]>> \o e.act,
               Toast(e.toasts, "Phase Complete"))

processGeneralPhaseCompletion(s, st, responses) ==
    LET analysis == analyzeGeneralResponses(responses, s.generalQuestions)
        detectedTypes == analysis.detectedTypes
        specificTypes == SelectSeq(detectedTypes, LAMBDA t : t # "general")
        typesToProcess == IF Len(specificTypes) > 0 THEN specificTypes
                          ELSE detectedTypes
    IN  IF ~analysis.hasPositiveResponses
        THEN Effect(st, <<Call("healthy", responses, responses, s)>>, <<>>, EmptyBag)
        ELSE IF Len(typesToProcess) > 0
        THEN LET st1 == [st EXCEPT !.detectedCancerTypes = typesToProcess,
                                   !.cancerTypesQueue = Tail(typesToProcess),
                                   !.currentCancerType = typesToProcess[1],
                                   !.hasPositiveResponses = TRUE]
                 e == loadQuestionsForCancerType(s, st1, responses, typesToProcess[1])
             IN  Effect(e.st, e.spawn, <<typesToProcess[1]>> \o e.act,
                        Toast(e.toasts, "Phase Complete"))
        ELSE Effect(st, <<Call("general", responses, responses, s)>>, <<>>, EmptyBag)

----------------------------------------------------------------------------
(* Branching resolver and answer handler *)

\* a resolver that lets the default rule win over a literal rule
nextQuestionIndexDefaultFirst(s, response) ==
    LET currentQuestion == s.questions[s.currentQuestionIndex + 1]
        logic == currentQuestion.next_question_logic
    IN  IF "default" \in DOMAIN logic
        THEN FindIndex(s.questions, logic["default"])
        ELSE IF response.t = "str" /\ response.s \in DOMAIN logic
        THEN FindIndex(s.questions, logic[response.s])
        ELSE s.currentQuestionIndex + 1

\* nextQuestionIndex as handleResponse computes it
nextQuestionIndex(s, response) ==
    LET currentQuestion == s.questions[s.currentQuestionIndex + 1]
        logic == currentQuestion.next_question_logic
    IN  IF response.t = "str" /\ response.s \in DOMAIN logic
        THEN FindIndex(s.questions, logic[response.s])
        ELSE IF "default" \in DOMAIN logic
        THEN FindIndex(s.questions, logic["default"])
        ELSE s.currentQuestionIndex + 1

\* an answer handler that steps to the next index without the range test
handleResponseUnchecked(s, questionId, response) ==
    LET newResponses == Put(s.responses, questionId, response)
        st == [s EXCEPT !.responses = newResponses]
        next == nextQuestionIndex(s, response)
    IN  IF next <= Len(s.questions) /\ next >= 0
        THEN Effect([st EXCEPT !.currentQuestionIndex = next], <<>>, <<>>, EmptyBag)
        ELSE IF s.quizPhase = "general"
        THEN processGeneralPhaseCompletion(s, st, newResponses)
        ELSE IF Len(s.cancerTypesQueue) > 0
        THEN loadNextCancerType(s, st, newResponses)
        ELSE Effect(st, <<Call("final", newResponses, newResponses, s)>>, <<>>, EmptyBag)

\* the synchronous part of handleResponse, up to its first await
handleResponse(s, questionId, response) ==
    LET newResponses == Put(s.responses, questionId, response)
        st == [s EXCEPT !.responses = newResponses]
        next == nextQuestionIndex(s, response)
    IN  IF next < Len(s.questions) /\ next >= 0
        THEN Effect([st EXCEPT !.currentQuestionIndex = next], <<>>, <<>>, EmptyBag)
        ELSE IF s.quizPhase = "general"
        THEN processGeneralPhaseCompletion(s, st, newResponses)
        ELSE IF Len(s.cancerTypesQueue) > 0
        THEN loadNextCancerType(s, st, newResponses)
        ELSE Effect(st, <<Call("final", newResponses, newResponses, s)>>, <<>>, EmptyBag)

----------------------------------------------------------------------------
(* Completion: persistence, scoring, tier lookup *)

Remove(seq, i) == SubSeq(seq, 1, i - 1) \o SubSeq(seq, i + 1, Len(seq))

\* the question set a completing handler scores
\* a completion that scores the general questions only
ScoredQuestionsGeneralOnly(c) == c.snap.generalQuestions

ScoredQuestions(c) ==
    IF c.kind = "general" THEN c.snap.generalQuestions
    ELSE c.snap.generalQuestions \o
         SelectSeq(c.snap.specializedQuestions,
                   LAMBDA q : Includes(c.snap.detectedCancerTypes, q.category))

\* a lookup that reads the score from the state instead of its argument
fetchRiskAssessmentStateScore(s, score) ==
    [score |-> s.score,
     cancer_type |-> IF Len(s.detectedCancerTypes) > 0
                        /\ s.detectedCancerTypes[1] # "general"
                     THEN s.detectedCancerTypes[1] ELSE null]

\* the query fetchRiskAssessment sends: the score range test, narrowed by
\* the primary detected type of the closure's state
fetchRiskAssessment(s, score) ==
    LET primaryCancerType ==
            IF Len(s.detectedCancerTypes) > 0 THEN s.detectedCancerTypes[1] ELSE null
    IN  [score |-> score,
         cancer_type |-> IF primaryCancerType # null /\ primaryCancerType # "general"
                         THEN primaryCancerType ELSE null]

\* a final setState that stores the score and leaves the quiz open
FinalStateStillOpen(st, c) ==
    IF c.kind = "healthy" THEN [st EXCEPT !.hasPositiveResponses = FALSE]
    ELSE [st EXCEPT !.score = c.score]

\* a final setState that leaves the score to fetchRiskAssessment
FinalStateWithoutScore(st, c) ==
    [st EXCEPT !.quizCompleted = TRUE,
               !.allCancerTypesProcessed = TRUE,
               !.hasPositiveResponses = IF c.kind = "healthy" THEN FALSE ELSE @]

\* the final setState of a handler of the given kind
FinalState(st, c) ==
    IF c.kind = "healthy"
    THEN [st EXCEPT !.quizCompleted = TRUE,
                    !.hasPositiveResponses = FALSE,
                    !.allCancerTypesProcessed = TRUE]
    ELSE IF c.kind = "general"
    THEN [st EXCEPT !.quizCompleted = TRUE,
                    !.score = c.score,
                    !.allCancerTypesProcessed = TRUE,
                    !.hasPositiveResponses = TRUE]
    ELSE [st EXCEPT !.quizCompleted = TRUE,
                    !.score = c.score,
                    !.allCancerTypesProcessed = TRUE]

Completion(c, tier) ==
    [kind |-> c.kind, written |-> c.written, full |-> c.full,
     saved |-> c.resp, authed |-> user, failed |-> c.failed, score |-> c.score,
     tier |-> tier]

\* what follows `await saveAllResponses(...)` in the handler c = pending[i]:
\* the healthy path completes; the scored paths compute the score and send
\* the tier query
AfterSave(i, c, isMounted, tst) ==
    IF c.kind = "healthy"
    THEN /\ state' = IF isMounted THEN FinalState(state, c) ELSE state
         /\ pending' = Remove(pending, i)
         /\ completions' = Append(completions, Completion(c, "none"))
         /\ toasts' = tst
         /\ UNCHANGED <<stack, upload, lookups, scored>>
    ELSE LET finalScore == calculateRiskScore(c.resp, ScoredQuestions(c))
             query == fetchRiskAssessment(c.snap, finalScore)
         IN  /\ pending' = [pending EXCEPT ![i] = [c EXCEPT !.pc = "lookup",
                                                            !.score = finalScore]]
             /\ lookups' = Append(lookups,
                    [score |-> query.score, cancer_type |-> query.cancer_type,
                     active |-> state.currentCancerType,
                     detected |-> state.detectedCancerTypes])
             /\ scored' = scored + 1
             /\ toasts' = tst
             /\ UNCHANGED <<stack, upload, state, completions>>

----------------------------------------------------------------------------
(* The single-candidate Quiz component.  Its handlers read the cells of   *)
(* the render they were created in (sm); awaited supabase calls do not    *)
(* change what is recorded here, so a handler is taken to its end.        *)

\* calculateRiskScore(allResponses) of the component: the question set of
\* the closure, setScore, and the filter of the tier query
simpleCalculateRiskScore(sm, allResponses) ==
    LET currentQuestionsSet ==
            IF sm.quizPhase = "specialized"
            THEN sm.generalQuestions \o sm.questions
            ELSE sm.questions
    IN  [totalScore |-> calculateRiskScore(allResponses, currentQuestionsSet),
         cancer_type |-> IF sm.detectedCancerType # null
                            /\ sm.detectedCancerType # "general"
                         THEN sm.detectedCancerType ELSE null]

\* the first label with the highest positive score, or "general"
RECURSIVE simpleDetectedTypeLastWins(_, _, _, _)
\* a detector that lets a later label take over on an equal score
simpleDetectedTypeLastWins(labels, scoreOf, maxScore, detectedType) ==
    IF labels = <<>> THEN (IF maxScore = 0 THEN "general" ELSE detectedType)
    ELSE IF scoreOf[Head(labels)] >= maxScore
         THEN simpleDetectedTypeLastWins(Tail(labels), scoreOf,
                                         scoreOf[Head(labels)], Head(labels))
         ELSE simpleDetectedTypeLastWins(Tail(labels), scoreOf, maxScore,
                                         detectedType)

RECURSIVE simpleDetectedType(_, _, _, _)
simpleDetectedType(labels, scoreOf, maxScore, detectedType) ==
    IF labels = <<>> THEN (IF maxScore = 0 THEN "general" ELSE detectedType)
    ELSE IF scoreOf[Head(labels)] > maxScore
         THEN simpleDetectedType(Tail(labels), scoreOf, scoreOf[Head(labels)],
                                 Head(labels))
         ELSE simpleDetectedType(Tail(labels), scoreOf, maxScore, detectedType)

\* analyzeGeneralResponses(generalResponses) of the component
simpleAnalyzeGeneralResponses(sm, st, generalResponses) ==
    LET known == {CancerTypes[i] : i \in 1..Len(CancerTypes)}
        scoreOf == [c \in known |->
                       cancerTypeScores(c, generalResponses, sm.generalQuestions)]
        detectedType == simpleDetectedType(CancerTypes, scoreOf, 0, null)
        specializedQuestionsForType ==
            SelectSeq(sm.specializedQuestions, LAMBDA q : q.category = detectedType)
        st1 == [st EXCEPT !.detectedCancerType = detectedType]
        result == simpleCalculateRiskScore(sm, generalResponses)
    IN  IF Len(specializedQuestionsForType) > 0
        THEN [st1 EXCEPT !.questions = specializedQuestionsForType,
                         !.currentQuestionIndex = 0,
                         !.quizPhase = "specialized"]
        ELSE [st1 EXCEPT !.score = result.totalScore,
                         !.queried = Append(@, result.cancer_type),
                         !.quizCompleted = TRUE]

\* handleResponse(questionId, response) of the component
simpleHandleResponse(sm, questionId, response) ==
    LET newResponses == Put(sm.responses, questionId, response)
        st == [sm EXCEPT !.responses = newResponses,
                         !.asked = Append(@, questionId)]
        next == nextQuestionIndex(sm, response)
        result == simpleCalculateRiskScore(sm, newResponses)
    IN  IF next < Len(sm.questions) /\ next >= 0
        THEN [st EXCEPT !.currentQuestionIndex = next]
        ELSE IF sm.quizPhase = "general"
        THEN simpleAnalyzeGeneralResponses(sm, st, newResponses)
        ELSE [st EXCEPT !.score = result.totalScore,
                        !.queried = Append(@, result.cancer_type),
                        !.quizCompleted = TRUE]

----------------------------------------------------------------------------
(* Actions *)

Init ==
    /\ cfg = 0
    /\ state = InitialState
    /\ pending = <<>>
    /\ user \in BOOLEAN
    /\ mounted = TRUE
    /\ store = EmptyBag
    /\ lookups = <<>>
    /\ toasts = EmptyBag
    /\ submitted = <<>>
    /\ activated = <<>>
    /\ scored = 0
    /\ completions = <<>>
    /\ simple = SimpleInitial
    /\ stack = NoCalls
    /\ upload = UploadInitial

\* the effect run on mount: both reads succeed and return repository c, or
\* the general read returns no rows or a read fails (c = 0)
FetchQuestions ==
    /\ state.isLoading
    /\ \E c \in 0..Len(Repository) :
        /\ cfg' = c
        /\ IF c > 0
           THEN /\ state' = [state EXCEPT
                                !.generalQuestions = Repository[c].general,
                                !.specializedQuestions = Repository[c].specialized,
                                !.questions = Repository[c].general,
                                !.isLoading = FALSE]
                /\ toasts' = toasts
           ELSE /\ state' = [state EXCEPT !.isLoading = FALSE]
                /\ toasts' = Toast(toasts, "No Questions Found")
    /\ UNCHANGED <<stack, upload, simple, pending, user, mounted, store, lookups, submitted,
                   activated, scored, completions>>

\* the question view calls onResponse for the question it shows; limit
\* bounds the handlers suspended at the same time
SubmitAnswer(limit) ==
    /\ mounted
    /\ ~state.isLoading
    /\ ~state.quizCompleted
    /\ Len(state.questions) > 0
    /\ state.currentQuestionIndex + 1 \in 1..Len(state.questions)
    /\ LET question == state.questions[state.currentQuestionIndex + 1]
       IN  \E response \in AnswersFor(question) :
             LET e == handleResponse(state, question.id, response)
             IN  /\ Len(pending) + Len(e.spawn) <= limit
                 /\ state' = e.st
                 /\ pending' = pending \o e.spawn
                 /\ activated' = activated \o e.act
                 /\ toasts' = toasts (+) e.toasts
                 /\ submitted' = Append(submitted,
                                        [id |-> question.id, value |-> response])
    /\ UNCHANGED <<stack, upload, simple, cfg, user, mounted, store, lookups, scored,
                   completions>>

\* a saveAllResponses that does not look at the identity
GetUserUnchecked(i) ==
    /\ i \in 1..Len(pending)
    /\ pending[i].pc = "getUser"
    /\ LET c == pending[i]
           keys == Ascending(DOMAIN c.resp)
       IN  IF keys = <<>>
           THEN /\ mounted' = mounted
                /\ AfterSave(i, c, mounted, Toast(toasts, "Success"))
           ELSE /\ pending' = [pending EXCEPT ![i] = [c EXCEPT !.pc = "insert",
                                                               !.todo = keys]]
                /\ UNCHANGED <<stack, upload, state, mounted, lookups, toasts, scored, completions>>
    /\ UNCHANGED <<stack, upload, simple, cfg, user, store, submitted, activated>>

\* supabase.auth.getUser() resolves in saveAllResponses
GetUser(i) ==
    /\ i \in 1..Len(pending)
    /\ pending[i].pc = "getUser"
    /\ LET c == pending[i]
           keys == Ascending(DOMAIN c.resp)
       IN  IF ~user
           THEN /\ mounted' = FALSE
                /\ AfterSave(i, c, FALSE, Toast(toasts, "Authentication required"))
           ELSE IF keys = <<>>
           THEN /\ mounted' = mounted
                /\ AfterSave(i, c, mounted, Toast(toasts, "Success"))
           ELSE /\ pending' = [pending EXCEPT ![i] = [c EXCEPT !.pc = "insert",
                                                               !.todo = keys]]
                /\ UNCHANGED <<stack, upload, state, mounted, lookups, toasts, scored, completions>>
    /\ UNCHANGED <<stack, upload, simple, cfg, user, store, submitted, activated>>

\* an insert loop that goes on to the next entry after an error
InsertReturnSkippingFailed(i) ==
    /\ i \in 1..Len(pending)
    /\ pending[i].pc = "insert"
    /\ \E ok \in BOOLEAN :
         LET c == pending[i]
             row == Row(c.resp, Head(c.todo))
             c1 == IF ok THEN [c EXCEPT !.todo = Tail(c.todo),
                                        !.written = Append(c.written, row)]
                   ELSE [c EXCEPT !.todo = Tail(c.todo), !.failed = TRUE]
             tst == IF ok THEN toasts
                    ELSE Toast(toasts, "Failed to save your responses")
         IN  /\ store' = IF ok THEN store (+) SetToBag({row}) ELSE store
             /\ IF c1.todo = <<>>
                THEN AfterSave(i, c1, mounted, tst)
                ELSE /\ pending' = [pending EXCEPT ![i] = c1]
                     /\ toasts' = tst
                     /\ UNCHANGED <<stack, upload, state, lookups, scored, completions>>
    /\ UNCHANGED <<stack, upload, simple, cfg, user, mounted, submitted, activated>>

\* one insert into user_responses resolves, with or without an error
InsertReturn(i) ==
    /\ i \in 1..Len(pending)
    /\ pending[i].pc = "insert"
    /\ \E ok \in BOOLEAN :
         LET c == pending[i]
             row == Row(c.resp, Head(c.todo))
             c1 == [c EXCEPT !.todo = Tail(c.todo),
                             !.written = Append(c.written, row)]
         IN  IF ~ok
             THEN /\ store' = store
                  /\ AfterSave(i, [c EXCEPT !.failed = TRUE, !.todo = <<>>], mounted,
                               Toast(toasts, "Failed to save your responses"))
             ELSE IF c1.todo = <<>>
             THEN /\ store' = store (+) SetToBag({row})
                  /\ AfterSave(i, c1, mounted, Toast(toasts, "Success"))
             ELSE /\ store' = store (+) SetToBag({row})
                  /\ pending' = [pending EXCEPT ![i] = c1]
                  /\ UNCHANGED <<stack, upload, state, lookups, toasts, scored, completions>>
    /\ UNCHANGED <<stack, upload, simple, cfg, user, mounted, submitted, activated>>

\* a lookup whose error ends the handler before its final setState
LookupReturnAborting(i) ==
    /\ i \in 1..Len(pending)
    /\ pending[i].pc = "lookup"
    /\ \E ok \in BOOLEAN :
         LET c == pending[i]
             query == fetchRiskAssessment(c.snap, c.score)
             data == [for_score |-> query.score, cancer_type |-> query.cancer_type]
             st == [state EXCEPT !.riskAssessment = <<data>>, !.score = c.score]
         IN  /\ state' = IF mounted /\ ok THEN FinalState(st, c) ELSE state
             /\ toasts' = IF ok THEN toasts
                          ELSE Toast(toasts, "Failed to determine your risk assessment")
             /\ completions' = Append(completions,
                                      Completion(c, IF ok THEN "ok" ELSE "error"))
    /\ pending' = Remove(pending, i)
    /\ UNCHANGED <<stack, upload, simple, cfg, user, mounted, store, lookups, submitted,
                   activated, scored>>

\* query.single() resolves in fetchRiskAssessment: exactly one row, or an error
LookupReturn(i) ==
    /\ i \in 1..Len(pending)
    /\ pending[i].pc = "lookup"
    /\ \E ok \in BOOLEAN :
         LET c == pending[i]
             query == fetchRiskAssessment(c.snap, c.score)
             data == [for_score |-> query.score, cancer_type |-> query.cancer_type]
             st == IF ok THEN [state EXCEPT !.riskAssessment = <<data>>,
                                            !.score = c.score]
                   ELSE state
         IN  /\ state' = IF mounted THEN FinalState(st, c) ELSE state
             /\ toasts' = IF ok THEN toasts
                          ELSE Toast(toasts, "Failed to determine your risk assessment")
             /\ completions' = Append(completions,
                                      Completion(c, IF ok THEN "ok" ELSE "error"))
    /\ pending' = Remove(pending, i)
    /\ UNCHANGED <<stack, upload, simple, cfg, user, mounted, store, lookups, submitted,
                   activated, scored>>

\* a restart that keeps the collected answers
resetQuizKeepingResponses ==
    /\ mounted
    /\ ~state.isLoading
    /\ state.quizCompleted
    /\ pending = <<>>
    /\ state' = [state EXCEPT !.currentQuestionIndex = 0,
                              !.quizCompleted = FALSE,
                              !.score = Fin(0),
                              !.riskAssessment = NoAssessment,
                              !.quizPhase = "general",
                              !.detectedCancerTypes = <<>>,
                              !.currentCancerType = null,
                              !.allCancerTypesProcessed = FALSE,
                              !.cancerTypesQueue = <<>>,
                              !.hasPositiveResponses = TRUE,
                              !.questions = state.generalQuestions]
    /\ store' = EmptyBag
    /\ lookups' = <<>>
    /\ toasts' = EmptyBag
    /\ submitted' = <<>>
    /\ activated' = <<>>
    /\ scored' = 0
    /\ completions' = <<>>
    /\ UNCHANGED <<stack, upload, simple, cfg, pending, user, mounted>>

\* the result views' restart button.  The model restarts only when no
\* handler is suspended; the histories start again with the new session.
resetQuiz ==
    /\ mounted
    /\ ~state.isLoading
    /\ state.quizCompleted
    /\ pending = <<>>
    /\ state' = [state EXCEPT !.currentQuestionIndex = 0,
                              !.responses = NoResponses,
                              !.quizCompleted = FALSE,
                              !.score = Fin(0),
                              !.riskAssessment = NoAssessment,
                              !.quizPhase = "general",
                              !.detectedCancerTypes = <<>>,
                              !.currentCancerType = null,
                              !.allCancerTypesProcessed = FALSE,
                              !.cancerTypesQueue = <<>>,
                              !.hasPositiveResponses = TRUE,
                              !.questions = state.generalQuestions]
    /\ pending' = pending
    /\ store' = EmptyBag
    /\ lookups' = <<>>
    /\ toasts' = EmptyBag
    /\ submitted' = <<>>
    /\ activated' = <<>>
    /\ scored' = 0
    /\ completions' = <<>>
    /\ UNCHANGED <<stack, upload, simple, cfg, user, mounted>>

Next ==
    \/ FetchQuestions
    \/ SubmitAnswer(MaxInFlight)
    \/ \E i \in 1..MaxInFlight : GetUser(i)
    \/ \E i \in 1..MaxInFlight : InsertReturn(i)
    \/ \E i \in 1..MaxInFlight : LookupReturn(i)
    \/ resetQuiz

Spec == Init /\ [][Next]_vars

NextOverlap ==
    \/ FetchQuestions
    \/ SubmitAnswer(MaxOverlap)
    \/ \E i \in 1..MaxOverlap : GetUser(i)
    \/ \E i \in 1..MaxOverlap : InsertReturn(i)
    \/ \E i \in 1..MaxOverlap : LookupReturn(i)
    \/ resetQuiz

SpecOverlap == Init /\ [][NextOverlap]_vars

----------------------------------------------------------------------------
(* The scorer applied to one question of every kind.  The component has   *)
(* two general questions, the first answered "Yes" and hinting skin, the  *)
(* second skipped by the first one's branch rule, and one skin question,  *)
(* which is the question under test.                                       *)

AnsweredQ == BoolQ(1, 7, "general", [c \in {"skin"} |-> 1],
                   [k \in {"default"} |-> 3])

SkippedQ == BoolQ(2, 5, "general", NoHints, NoLogic)

ChoiceLists ==
    { <<>>, <<"Often">>, <<"No", "Often">>, <<"No", "Sometimes", "Often">> }

ScorerQuestions ==
    {BoolQ(3, w, "skin", NoHints, NoLogic) : w \in 0..MaxWeight}
    \cup {RangeQ(3, w, "skin", lo, hi) :
              w \in 0..MaxWeight, lo \in (0 - MaxRange)..MaxRange,
              hi \in (0 - MaxRange)..MaxRange}
    \cup {SelectQ(3, w, "skin", choices) :
              w \in 0..MaxWeight, choices \in ChoiceLists}

ScorerAnswers ==
    {Str("Yes"), Str("No"), Str(""), Str("Maybe"), Str("Sometimes"), Str("Often")}
    \cup {Num(n) : n \in (0 - MaxRange - 1)..(MaxRange + 1)}
    \cup {Str(NumToString(n)) : n \in (0 - MaxRange - 1)..(MaxRange + 1)}

InitScorer ==
    /\ cfg = 0
    /\ state = InitialState
    /\ pending = <<>>
    /\ user = TRUE
    /\ mounted = TRUE
    /\ store = EmptyBag
    /\ lookups = <<>>
    /\ toasts = EmptyBag
    /\ submitted = <<>>
    /\ activated = <<>>
    /\ scored = 0
    /\ completions = <<>>
    /\ stack = NoCalls
    /\ upload = UploadInitial
    /\ \E q \in ScorerQuestions :
          simple = [SimpleInitial EXCEPT !.isLoading = FALSE,
                                         !.generalQuestions = <<AnsweredQ, SkippedQ>>,
                                         !.specializedQuestions = <<q>>,
                                         !.questions = <<AnsweredQ, SkippedQ>>]

\* the question view of the single-candidate component hands an answer to
\* handleResponse: "Yes" for the general question, any value for the
\* question under test
SimpleAnswer ==
    /\ ~simple.isLoading
    /\ ~simple.quizCompleted
    /\ Len(simple.questions) > 0
    /\ LET question == simple.questions[simple.currentQuestionIndex + 1]
       IN  \E response \in IF question.category = "general" THEN {Str("Yes")}
                            ELSE ScorerAnswers :
             simple' = simpleHandleResponse(simple, question.id, response)
    /\ UNCHANGED <<stack, upload, cfg, state, pending, user, mounted, store, lookups, toasts,
                   submitted, activated, scored, completions>>

SpecScorer == InitScorer /\ [][SimpleAnswer]_vars

----------------------------------------------------------------------------
(* The branching resolver applied to every rule map of the first general  *)
(* question: keys "Yes", "5" and "default", targets the question itself,  *)
(* its successor, the last question, and an id that is in no set.          *)

RuleKeys == {"Yes", "5", "default"}

MissingId == 9

RuleTargets == {1, 2, 3, MissingId}

RuleMaps == UNION {[K -> RuleTargets] : K \in SUBSET RuleKeys}

ResolverQuestions(rules) ==
    << [RangeQ(1, 4, "general", 0, 10) EXCEPT !.next_question_logic = rules],
       BoolQ(2, 4, "general", NoHints, NoLogic),
       BoolQ(3, 4, "general", NoHints, NoLogic) >>

ResolverAnswers == {Str("Yes"), Str("No"), Str("5"), Num(5)}

\* the component after fetchQuestions loaded one of the resolver's sets
InitResolver ==
    /\ cfg = 0
    /\ \E rules \in RuleMaps :
          state = [InitialState EXCEPT !.generalQuestions = ResolverQuestions(rules),
                                       !.questions = ResolverQuestions(rules),
                                       !.isLoading = FALSE]
    /\ pending = <<>>
    /\ user = TRUE
    /\ mounted = TRUE
    /\ store = EmptyBag
    /\ lookups = <<>>
    /\ toasts = EmptyBag
    /\ submitted = <<>>
    /\ activated = <<>>
    /\ scored = 0
    /\ completions = <<>>
    /\ simple = SimpleInitial
    /\ stack = NoCalls
    /\ upload = UploadInitial

\* onResponse with an answer of either type, given when no earlier handler
\* is still suspended
ResolveAnswer ==
    /\ mounted
    /\ pending = <<>>
    /\ ~state.isLoading
    /\ ~state.quizCompleted
    /\ Len(submitted) < MaxAnswers
    /\ state.currentQuestionIndex + 1 \in 1..Len(state.questions)
    /\ LET question == state.questions[state.currentQuestionIndex + 1]
       IN  \E response \in ResolverAnswers :
             LET e == handleResponse(state, question.id, response)
             IN  /\ Len(pending) + Len(e.spawn) <= MaxInFlight
                 /\ state' = e.st
                 /\ pending' = pending \o e.spawn
                 /\ activated' = activated \o e.act
                 /\ toasts' = toasts (+) e.toasts
                 /\ submitted' = Append(submitted,
                                        [id |-> question.id, value |-> response])
    /\ UNCHANGED <<stack, upload, simple, cfg, user, mounted, store, lookups, scored,
                   completions>>

NextResolver ==
    \/ ResolveAnswer
    \/ \E i \in 1..MaxInFlight : GetUser(i)
    \/ \E i \in 1..MaxInFlight : InsertReturn(i)
    \/ \E i \in 1..MaxInFlight : LookupReturn(i)

SpecResolver == InitResolver /\ [][NextResolver]_vars

----------------------------------------------------------------------------
(* Both components on the same repository content and the same answers:   *)
(* the multi-candidate component is answered through its question view    *)
(* and the single-candidate component is given the same answers in the    *)
(* same order, as long as it shows the question the answer was given to.  *)

\* both components after their fetchQuestions loaded repository content c
InitBoth ==
    /\ \E c \in 1..Len(Repository) :
          /\ cfg = c
          /\ state = [InitialState EXCEPT
                          !.generalQuestions = Repository[c].general,
                          !.specializedQuestions = Repository[c].specialized,
                          !.questions = Repository[c].general,
                          !.isLoading = FALSE]
          /\ simple = [SimpleInitial EXCEPT
                          !.generalQuestions = Repository[c].general,
                          !.specializedQuestions = Repository[c].specialized,
                          !.questions = Repository[c].general,
                          !.isLoading = FALSE]
    /\ pending = <<>>
    /\ user = TRUE
    /\ mounted = TRUE
    /\ store = EmptyBag
    /\ lookups = <<>>
    /\ toasts = EmptyBag
    /\ submitted = <<>>
    /\ activated = <<>>
    /\ scored = 0
    /\ completions = <<>>
    /\ stack = NoCalls
    /\ upload = UploadInitial

\* the single-candidate component shows the question of the next answer
\* that was given to the multi-candidate component
SimpleFollows ==
    /\ ~simple.isLoading
    /\ ~simple.quizCompleted
    /\ Len(simple.asked) < Len(submitted)
    /\ simple.currentQuestionIndex + 1 \in 1..Len(simple.questions)
    /\ simple.questions[simple.currentQuestionIndex + 1].id
          = submitted[Len(simple.asked) + 1].id

\* onResponse of the single-candidate component with that answer
SimpleReplay ==
    /\ SimpleFollows
    /\ LET answer == submitted[Len(simple.asked) + 1]
       IN  simple' = simpleHandleResponse(simple, answer.id, answer.value)
    /\ UNCHANGED <<stack, upload, cfg, state, pending, user, mounted, store, lookups, toasts,
                   submitted, activated, scored, completions>>

NextBoth ==
    \/ SubmitAnswer(MaxInFlight)
    \/ \E i \in 1..MaxInFlight : GetUser(i)
    \/ \E i \in 1..MaxInFlight : InsertReturn(i)
    \/ \E i \in 1..MaxInFlight : LookupReturn(i)
    \/ SimpleReplay

SpecBoth == InitBoth /\ [][NextBoth]_vars

----------------------------------------------------------------------------
(* The calls between loadNextCancerType and loadQuestionsForCancerType,   *)
(* one call per step.  `state` is the state of the render whose handler   *)
(* makes the calls: every call reads that same value.  The calls are      *)
(* entered from handleResponse at the end of a candidate's questions      *)
(* (line 409) or from processGeneralPhaseCompletion (line 473).           *)

QueueLabels == {"skin", "kidney", "brain", "breast"}

Queues ==
    {q \in UNION {[1..n -> QueueLabels] : n \in 0..MaxQueue} :
        \A i, j \in 1..Len(q) : q[i] = q[j] => i = j}

\* general questions whose "Yes" answers make the detector return types
GeneralHinting(types) ==
    [i \in 1..Len(types) |->
        BoolQ(i, 5, "general", [c \in {types[i]} |-> Len(types) - i + 1], NoLogic)]

AllYes(types) == [i \in 1..Len(types) |-> Str("Yes")]

\* one oral question and one question for every label of withQuestions
SpecializedOf(withQuestions) ==
    <<BoolQ(20, 7, "oral", NoHints, NoLogic)>> \o
    SelectSeq(<<BoolQ(31, 6, "skin", NoHints, NoLogic),
                BoolQ(32, 6, "kidney", NoHints, NoLogic),
                BoolQ(33, 6, "brain", NoHints, NoLogic),
                BoolQ(34, 6, "breast", NoHints, NoLogic)>>,
              LAMBDA q : q.category \in withQuestions)

\* the render in which the last general question is answered
GeneralRender(types, withQuestions) ==
    [InitialState EXCEPT
        !.isLoading = FALSE,
        !.generalQuestions = GeneralHinting(types),
        !.specializedQuestions = SpecializedOf(withQuestions),
        !.questions = GeneralHinting(types),
        !.currentQuestionIndex = Len(types) - 1,
        !.responses = [i \in 1..(Len(types) - 1) |-> Str("Yes")]]

\* the render in which the oral question is answered, oral being the first
\* detected candidate and queue the candidates after it
SpecializedRender(queue, withQuestions) ==
    [InitialState EXCEPT
        !.isLoading = FALSE,
        !.generalQuestions = GeneralHinting(<<"oral">> \o queue),
        !.specializedQuestions = SpecializedOf(withQuestions),
        !.questions = <<BoolQ(20, 7, "oral", NoHints, NoLogic)>>,
        !.responses = AllYes(<<"oral">> \o queue),
        !.quizPhase = "specialized",
        !.detectedCancerTypes = <<"oral">> \o queue,
        !.currentCancerType = "oral",
        !.cancerTypesQueue = queue,
        !.hasPositiveResponses = TRUE]

InitRecursion ==
    /\ cfg = 0
    /\ pending = <<>>
    /\ user = TRUE
    /\ mounted = TRUE
    /\ store = EmptyBag
    /\ lookups = <<>>
    /\ toasts = EmptyBag
    /\ submitted = <<>>
    /\ activated = <<>>
    /\ scored = 0
    /\ completions = <<>>
    /\ simple = SimpleInitial
    /\ upload = UploadInitial
    /\ \E queue \in Queues, withQuestions \in SUBSET QueueLabels :
          /\ queue # <<>>
          /\ \/ /\ state = SpecializedRender(queue, withQuestions)
                /\ stack = [NoCalls EXCEPT
                      !.pc = "loadNextCancerType",
                      !.depth = 1,
                      !.st = [state EXCEPT !.responses = Put(@, 20, Str("Yes"))]]
             \/ /\ state = GeneralRender(queue, withQuestions)
                /\ stack = [NoCalls EXCEPT
                      !.pc = "loadQuestionsForCancerType",
                      !.depth = 1,
                      !.cancerType = queue[1],
                      !.st = [state EXCEPT
                                !.responses = AllYes(queue),
                                !.detectedCancerTypes = queue,
                                !.cancerTypesQueue = Tail(queue),
                                !.currentCancerType = queue[1],
                                !.hasPositiveResponses = TRUE]]

\* a call that would nest deeper than the engine allows throws RangeError;
\* the setState calls made so far are applied
StackOverflow ==
    /\ stack.pc \in {"loadNextCancerType", "loadQuestionsForCancerType"}
    /\ stack.depth > MaxStack
    /\ stack' = [stack EXCEPT !.pc = "RangeError"]
    /\ state' = stack.st
    /\ UNCHANGED <<cfg, pending, user, mounted, store, lookups, toasts,
                   submitted, activated, scored, completions, simple, upload>>

\* one call of loadNextCancerType, up to its call of
\* loadQuestionsForCancerType or its first await
RunLoadNextCancerType ==
    /\ stack.pc = "loadNextCancerType"
    /\ stack.depth <= MaxStack
    /\ IF Len(state.cancerTypesQueue) > 0
       THEN LET nextType == state.cancerTypesQueue[1]
                remainingQueue == Tail(state.cancerTypesQueue)
            IN  /\ stack' = [stack EXCEPT
                       !.pc = "loadQuestionsForCancerType",
                       !.depth = @ + 1,
                       !.cancerType = nextType,
                       !.reads = Append(@, state.cancerTypesQueue),
                       !.st = [@ EXCEPT !.currentCancerType = nextType,
                                        !.cancerTypesQueue = remainingQueue]]
                /\ activated' = IF stack.st.currentCancerType = nextType
                                THEN activated
                                ELSE Append(activated, nextType)
                /\ UNCHANGED <<state, pending>>
       ELSE /\ stack' = [stack EXCEPT !.pc = "done",
                                      !.reads = Append(@, state.cancerTypesQueue)]
            /\ state' = stack.st
            /\ pending' = <<Call("next", state.responses, stack.st.responses, state)>>
            /\ UNCHANGED activated
    /\ UNCHANGED <<cfg, user, mounted, store, lookups, toasts, submitted,
                   scored, completions, simple, upload>>

\* one call of loadQuestionsForCancerType
RunLoadQuestionsForCancerType ==
    /\ stack.pc = "loadQuestionsForCancerType"
    /\ stack.depth <= MaxStack
    /\ LET specializedQuestionsForType == SpecializedFor(state, stack.cancerType)
       IN  IF Len(specializedQuestionsForType) > 0
           THEN /\ stack' = [stack EXCEPT !.pc = "active"]
                /\ state' = [stack.st EXCEPT
                                !.questions = specializedQuestionsForType,
                                !.currentQuestionIndex = 0,
                                !.quizPhase = "specialized"]
           ELSE /\ stack' = [stack EXCEPT !.pc = "loadNextCancerType",
                                          !.depth = @ + 1]
                /\ UNCHANGED state
    /\ UNCHANGED <<cfg, pending, user, mounted, store, lookups, toasts,
                   submitted, activated, scored, completions, simple, upload>>

NextRecursion ==
    \/ RunLoadNextCancerType
    \/ RunLoadQuestionsForCancerType
    \/ StackOverflow

\* the calls are synchronous: a call that can run does run
SpecRecursion ==
    InitRecursion /\ [][NextRecursion]_vars /\ WF_vars(NextRecursion)

----------------------------------------------------------------------------
(* A user who answers every question the component presents.  The rule   *)
(* map is on the second general question, so its targets are an earlier   *)
(* question, the question itself, the next question and a missing id.     *)
(* The histories are left alone: they do not decide what the component    *)
(* does, and a session that goes on for ever would make them grow for     *)
(* ever.                                                                   *)

PersistentQuestions(rules) ==
    << BoolQ(1, 4, "general", NoHints, NoLogic),
       [RangeQ(2, 4, "general", 0, 10) EXCEPT !.next_question_logic = rules],
       BoolQ(3, 4, "general", NoHints, NoLogic) >>

InitPersistent ==
    /\ cfg = 0
    /\ \E rules \in RuleMaps :
          state = [InitialState EXCEPT
                      !.generalQuestions = PersistentQuestions(rules),
                      !.questions = PersistentQuestions(rules),
                      !.isLoading = FALSE]
    /\ pending = <<>>
    /\ user = TRUE
    /\ mounted = TRUE
    /\ store = EmptyBag
    /\ lookups = <<>>
    /\ toasts = EmptyBag
    /\ submitted = <<>>
    /\ activated = <<>>
    /\ scored = 0
    /\ completions = <<>>
    /\ simple = SimpleInitial
    /\ stack = NoCalls
    /\ upload = UploadInitial

\* onResponse for the presented question, once the earlier handler is over:
\* "Yes" for a question without rules, any answer for the one with rules
AnswerPresented ==
    /\ mounted
    /\ pending = <<>>
    /\ ~state.isLoading
    /\ ~state.quizCompleted
    /\ state.currentQuestionIndex + 1 \in 1..Len(state.questions)
    /\ LET question == state.questions[state.currentQuestionIndex + 1]
       IN  \E response \in IF question.next_question_logic = NoLogic
                            THEN {Str("Yes")} ELSE ResolverAnswers :
             LET e == handleResponse(state, question.id, response)
             IN  /\ state' = e.st
                 /\ pending' = e.spawn
    /\ UNCHANGED <<stack, upload, simple, cfg, user, mounted, store, lookups,
                   toasts, submitted, activated, scored, completions>>

Resumed ==
    \/ \E i \in 1..MaxInFlight : GetUser(i)
    \/ \E i \in 1..MaxInFlight : InsertReturn(i)
    \/ \E i \in 1..MaxInFlight : LookupReturn(i)

NextPersistent == AnswerPresented \/ Resumed

\* the user keeps answering and every supabase call returns
SpecPersistent ==
    /\ InitPersistent
    /\ [][NextPersistent]_vars
    /\ WF_vars(AnswerPresented)
    /\ WF_vars(Resumed)

----------------------------------------------------------------------------
(* The single-candidate detector applied to two general questions with    *)
(* every pair of hint maps: hints for one or two of the fixed labels, for  *)
(* a label outside the fixed ones (lung), or none.  Skin and kidney have   *)
(* a specialized question, the other labels have none.                     *)

HintLabelSets ==
    { {}, {"skin"}, {"kidney"}, {"skin", "kidney"}, {"breast", "lung"}, {"lung"} }

HintMaps == UNION {[labels -> 1..MaxHint] : labels \in HintLabelSets}

DetectorAnswers == {Str("Yes"), Str("No"), Str(""), Str("Maybe"), Num(0)}

InitDetector ==
    /\ cfg = 0
    /\ state = InitialState
    /\ pending = <<>>
    /\ user = TRUE
    /\ mounted = TRUE
    /\ store = EmptyBag
    /\ lookups = <<>>
    /\ toasts = EmptyBag
    /\ submitted = <<>>
    /\ activated = <<>>
    /\ scored = 0
    /\ completions = <<>>
    /\ stack = NoCalls
    /\ upload = UploadInitial
    /\ \E first \in HintMaps, second \in HintMaps :
          LET general == << BoolQ(1, 3, "general", first, NoLogic),
                            BoolQ(2, 5, "general", second, NoLogic) >>
          IN  simple = [SimpleInitial EXCEPT
                          !.isLoading = FALSE,
                          !.generalQuestions = general,
                          !.specializedQuestions =
                              << BoolQ(10, 6, "skin", NoHints, NoLogic),
                                 BoolQ(11, 6, "kidney", NoHints, NoLogic) >>,
                          !.questions = general]

\* onResponse of the single-candidate component: any answer for a general
\* question, "Yes" for a specialized one
DetectorAnswer ==
    /\ ~simple.isLoading
    /\ ~simple.quizCompleted
    /\ Len(simple.questions) > 0
    /\ LET question == simple.questions[simple.currentQuestionIndex + 1]
       IN  \E response \in IF question.category = "general" THEN DetectorAnswers
                            ELSE {Str("Yes")} :
             simple' = simpleHandleResponse(simple, question.id, response)
    /\ UNCHANGED <<cfg, state, pending, user, mounted, store, lookups, toasts,
                   submitted, activated, scored, completions, stack, upload>>

SpecDetector == InitDetector /\ [][DetectorAnswer]_vars

----------------------------------------------------------------------------
(* The UploadSection component: file selection, the simulated upload with *)
(* its interval and its two timeouts, and resetUpload.  A timer callback   *)
(* is a closure of the render in which handleUpload was called.            *)

\* currentProgress += 5
ProgressStep == 5

\* currentProgress >= 100
ProgressFull == 100

QuizUnchanged ==
    UNCHANGED <<cfg, state, pending, user, mounted, store, lookups, toasts,
                submitted, activated, scored, completions, simple, stack>>

\* handleFile with an image; the drop zone is rendered only when no file
\* is selected
SelectFile ==
    /\ upload.file = 0
    /\ upload.selected < MaxFiles
    /\ upload' = [upload EXCEPT !.error = FALSE,
                                !.file = upload.selected + 1,
                                !.selected = @ + 1]
    /\ QuizUnchanged

\* handleFile with a file that is not an image
RejectFile ==
    /\ upload.file = 0
    /\ ~upload.error
    /\ upload' = [upload EXCEPT !.error = TRUE]
    /\ QuizUnchanged

\* the Upload button (disabled while uploading or with an error)
handleUpload ==
    /\ upload.file # 0
    /\ ~upload.uploading
    /\ ~upload.error
    /\ upload.started < MaxUploads
    /\ upload' = [upload EXCEPT !.uploading = TRUE,
                                !.timer = "interval",
                                !.currentProgress = 0,
                                !.closureFile = upload.file,
                                !.started = @ + 1]
    /\ QuizUnchanged

\* one run of the setInterval callback
IntervalTick ==
    /\ upload.timer = "interval"
    /\ LET currentProgress == upload.currentProgress + ProgressStep
       IN  upload' = [upload EXCEPT
                        !.currentProgress = currentProgress,
                        !.progress = currentProgress,
                        !.timer = IF currentProgress >= ProgressFull
                                  THEN "analysis" ELSE "interval"]
    /\ QuizUnchanged

\* the 500 ms timeout runs simulateAnalysis, which sets the 1000 ms timeout
simulateAnalysis ==
    /\ upload.timer = "analysis"
    /\ upload' = [upload EXCEPT !.timer = "result"]
    /\ QuizUnchanged

\* the 1000 ms timeout: setUploading(false); onUploadComplete(results)
DeliverResult ==
    /\ upload.timer = "result"
    /\ upload' = [upload EXCEPT
                     !.timer = "none",
                     !.uploading = FALSE,
                     !.delivered = Append(@,
                         [file |-> upload.closureFile,
                          discarded |-> upload.closureFile \in upload.discarded])]
    /\ QuizUnchanged

\* resetUpload from the header's close button (always enabled) or from the
\* Cancel button (disabled while uploading)
resetUpload(button) ==
    /\ upload.file # 0
    /\ button = "Cancel" => ~upload.uploading
    /\ upload' = [upload EXCEPT !.file = 0,
                                !.progress = 0,
                                !.error = FALSE,
                                !.discarded = @ \cup {upload.file}]
    /\ QuizUnchanged

NextUpload ==
    \/ SelectFile
    \/ RejectFile
    \/ handleUpload
    \/ IntervalTick
    \/ simulateAnalysis
    \/ DeliverResult
    \/ \E button \in {"close", "Cancel"} : resetUpload(button)

InitUpload ==
    /\ cfg = 0
    /\ state = InitialState
    /\ pending = <<>>
    /\ user = TRUE
    /\ mounted = TRUE
    /\ store = EmptyBag
    /\ lookups = <<>>
    /\ toasts = EmptyBag
    /\ submitted = <<>>
    /\ activated = <<>>
    /\ scored = 0
    /\ completions = <<>>
    /\ simple = SimpleInitial
    /\ stack = NoCalls
    /\ upload = UploadInitial

SpecUpload == InitUpload /\ [][NextUpload]_vars

----------------------------------------------------------------------------
(* Helpers of the properties *)

IsPrefix(a, b) == Len(a) <= Len(b) /\ \A i \in 1..Len(a) : a[i] = b[i]

LastOf(seq) == seq[Len(seq)]

\* the quiz is on screen: loaded with questions and not navigated away
Running == mounted /\ ~state.isLoading /\ cfg > 0

\* the session ended on the scored path (the result view, not the healthy view)
ScoredDone == Running /\ state.quizCompleted /\ state.hasPositiveResponses

----------------------------------------------------------------------------
(* C1: queue draining.  The candidates made active during a session are   *)
(* the detected candidates in their order: at every moment a prefix of    *)
(* them, at the end of a scored session all of them; and while a          *)
(* specialized question is on screen it belongs to the active candidate,  *)
(* so a candidate without questions is passed without asking anything.    *)
C1_QueueDraining ==
    Running =>
        /\ IsPrefix(activated, state.detectedCancerTypes)
        /\ (state.quizCompleted /\ state.hasPositiveResponses
                => activated = state.detectedCancerTypes)
        /\ (~state.quizCompleted /\ state.quizPhase = "specialized"
                => /\ state.questions = SpecializedFor(state, state.currentCancerType)
                   /\ state.questions # <<>>)

----------------------------------------------------------------------------
(* C2: a scored session that ends while still in the general phase ends   *)
(* there only because no detected candidate has a specialized question,   *)
(* and its score is the Scorer applied to every submitted general answer, *)
(* the last one included.                                                  *)
C2_GeneralOnlyScore ==
    (ScoredDone /\ state.quizPhase = "general") =>
        /\ \A i \in 1..Len(state.detectedCancerTypes) :
              SpecializedFor(state, state.detectedCancerTypes[i]) = <<>>
        /\ state.score = calculateRiskScore(state.responses, state.generalQuestions)

----------------------------------------------------------------------------
(* C3: when every answer submitted in the session is the negative         *)
(* sentinel ("No" or empty), the end of the general set starts the healthy *)
(* completion only: the session ends with hasPositiveResponses false, the *)
(* Scorer and the tier lookup are never invoked, and with an identity and *)
(* no write error every answer is in the Response Store.                  *)
AllSubmittedNegative ==
    \A k \in 1..Len(submitted) : IsNegative(submitted[k].value)

C3_HealthyTerminal ==
    (Running /\ AllSubmittedNegative) =>
        /\ scored = 0
        /\ lookups = <<>>
        /\ \A i \in 1..Len(pending) : pending[i].kind = "healthy"
        /\ (~state.quizCompleted /\ pending = <<>>) => state.quizPhase = "general"
        /\ state.quizCompleted =>
              /\ ~state.hasPositiveResponses
              /\ completions # <<>>
              /\ \A k \in 1..Len(completions) : completions[k].kind = "healthy"
              /\ (user /\ \A k \in 1..Len(completions) : ~completions[k].failed)
                    => \A q \in DOMAIN state.responses :
                          CopiesIn(Row(state.responses, q), store) >= 1

C3_Witness ==
    /\ Running /\ AllSubmittedNegative /\ state.quizCompleted
    /\ Len(submitted) >= 2
    /\ user
    /\ BagCardinality(store) = Len(submitted)

----------------------------------------------------------------------------
(* C4: every handler that completes the session, with an identity and no  *)
(* write error, has inserted exactly one row per entry of the full answer *)
(* mapping, the answer that ended the session included, each value as a   *)
(* string.                                                                 *)
C4_PersistsFullMapping ==
    \A k \in 1..Len(completions) :
        (completions[k].authed /\ ~completions[k].failed)
            => completions[k].written = RowsOf(completions[k].full)

----------------------------------------------------------------------------
(* C5: whenever the session is completed on the scored path, the stored   *)
(* score is the score the completing handler computed, and the risk tier  *)
(* is set (not none).                                                      *)
C5_ScoreAndTierSet ==
    ScoredDone =>
        /\ completions # <<>>
        /\ state.score = LastOf(completions).score
        /\ state.riskAssessment # NoAssessment

\* C5 as amended: the tier is set when the completing handler's lookup
\* returned a row, and it is then the row of the stored score; when the
\* lookup failed the score is stored all the same.
C5_ScoreSetTierIfFound ==
    ScoredDone =>
        /\ completions # <<>>
        /\ state.score = LastOf(completions).score
        /\ LastOf(completions).tier = "ok"
              => /\ state.riskAssessment # NoAssessment
                 /\ state.riskAssessment[1].for_score = state.score

C5_Witness ==
    /\ ScoredDone
    /\ LastOf(completions).tier = "error"
    /\ state.riskAssessment = NoAssessment
    /\ state.score.v > 0

----------------------------------------------------------------------------
(* C6: handlers never overlap: while a handler is suspended awaiting the  *)
(* Response Store or the tier lookup, no further answer is accepted.      *)
C6_NoOverlap ==
    [][pending # <<>> => submitted' = submitted]_vars

----------------------------------------------------------------------------
(* C7: the tier query sent at completion is narrowed by the candidate     *)
(* that is active at that moment when a specific candidate was detected,  *)
(* and is not narrowed when none was.                                      *)
SpecificDetected(detected) ==
    \E i \in 1..Len(detected) : detected[i] # "general"

C7_NarrowedByActive ==
    \A k \in 1..Len(lookups) :
        lookups[k].cancer_type =
            IF SpecificDetected(lookups[k].detected) THEN lookups[k].active
            ELSE null

----------------------------------------------------------------------------
(* C8: a restart leaves the state equal to the state right after the      *)
(* questions were loaded.                                                  *)
PostLoadState ==
    [InitialState EXCEPT !.generalQuestions = Repository[cfg].general,
                         !.specializedQuestions = Repository[cfg].specialized,
                         !.questions = Repository[cfg].general,
                         !.isLoading = FALSE]

\* only resetQuiz takes quizCompleted from true to false
IsRestart == state.quizCompleted /\ ~state'.quizCompleted

----------------------------------------------------------------------------
(* C9: the two-question screening scenario: G1 "Yes", G2 "No" detects     *)
(* ["skin"] with a positive answer and asks S1; S1 answered "5" ends the  *)
(* session with score 20 and a tier query narrowed to "skin".             *)
ScenarioGeneral ==
    << [id |-> 1, value |-> Str("Yes")], [id |-> 2, value |-> Str("No")] >>

Scenario == Append(ScenarioGeneral, [id |-> 3, value |-> Str("5")])

C9_Scenario ==
    (Running /\ cfg = 1) =>
        /\ submitted = ScenarioGeneral =>
              /\ state.detectedCancerTypes = <<"skin">>
              /\ state.hasPositiveResponses
              /\ state.quizPhase = "specialized"
              /\ ~state.quizCompleted
              /\ state.questions[state.currentQuestionIndex + 1].id = 3
        /\ (submitted = Scenario /\ state.quizCompleted) =>
              /\ state.score = Fin(20)
              /\ Len(lookups) = 1
              /\ lookups[1].score = Fin(20)
              /\ lookups[1].cancer_type = "skin"

C9_Witness ==
    /\ Running /\ cfg = 1
    /\ submitted = Scenario
    /\ state.quizCompleted
    /\ Len(lookups) = 1

----------------------------------------------------------------------------
(* C10: on a scored completion no insert of the handler is outstanding    *)
(* when its tier query is sent, the query carries the score the handler   *)
(* has just computed, and that score is the one the session state holds   *)
(* after the handler's final update.                                       *)
C10_SaveThenLookupFreshScore ==
    /\ \A i \in 1..Len(pending) :
          pending[i].pc = "lookup" =>
              /\ pending[i].todo = <<>>
              /\ (user /\ ~pending[i].failed)
                    => pending[i].written = RowsOf(pending[i].resp)
              /\ pending[i].score =
                    calculateRiskScore(pending[i].resp, ScoredQuestions(pending[i]))
              /\ \E k \in 1..Len(lookups) : lookups[k].score = pending[i].score
    /\ (Running /\ state.quizCompleted /\ completions # <<>>
            /\ LastOf(completions).kind # "healthy") =>
              /\ state.score = LastOf(completions).score
              /\ \E k \in 1..Len(lookups) : lookups[k].score = state.score

C10_Witness ==
    /\ Running /\ state.quizCompleted
    /\ completions # <<>>
    /\ LastOf(completions).kind = "final"
    /\ LastOf(completions).written # <<>>
    /\ state.score.v > 0

----------------------------------------------------------------------------
(* C11: the inserts of a completion are made one at a time in the order   *)
(* of the mapping's entries; when one fails the earlier rows stay in the  *)
(* Response Store, no later insert is made, the failure is notified once  *)
(* per completion, and the session is completed all the same.             *)
FailedCalls ==
    Cardinality({i \in 1..Len(pending) : pending[i].failed})
        + Cardinality({k \in 1..Len(completions) : completions[k].failed})

StoredPrefix(written, failed, mapping) ==
    /\ IsPrefix(written, RowsOf(mapping))
    /\ failed => Len(written) < Len(RowsOf(mapping))
    /\ \A k \in 1..Len(written) : CopiesIn(written[k], store) >= 1

C11_PartialPersistence ==
    /\ \A i \in 1..Len(pending) :
          /\ StoredPrefix(pending[i].written, pending[i].failed, pending[i].resp)
          /\ pending[i].pc = "insert" =>
                /\ ~pending[i].failed
                /\ Len(pending[i].written) + Len(pending[i].todo)
                      = Len(RowsOf(pending[i].resp))
    /\ \A k \in 1..Len(completions) :
          StoredPrefix(completions[k].written, completions[k].failed,
                       completions[k].saved)
    /\ CopiesIn("Failed to save your responses", toasts) = FailedCalls
    /\ (Running /\ completions # <<>>) => state.quizCompleted

C11_Witness ==
    /\ Running /\ state.quizCompleted
    /\ \E k \in 1..Len(completions) :
          /\ completions[k].failed
          /\ Len(completions[k].written) >= 1
          /\ Len(completions[k].written) + 1 < Len(RowsOf(completions[k].saved))

----------------------------------------------------------------------------
(* C12: without an authenticated identity no row ever reaches the         *)
(* Response Store; the step of saveAllResponses that finds no identity    *)
(* raises the "Authentication required" notification, navigates to the    *)
(* login page and leaves the answer mapping as it was.                    *)
FindsIdentityMissing ==
    /\ ~user
    /\ \E i \in 1..Len(pending) :
          /\ pending[i].pc = "getUser"
          /\ \/ pending' = Remove(pending, i)
             \/ Len(pending') = Len(pending) /\ pending'[i].pc # "getUser"

C12_NoIdentityNoWrites ==
    [][/\ ~user => store' = EmptyBag
       /\ FindsIdentityMissing =>
             /\ state'.responses = state.responses
             /\ ~mounted'
             /\ CopiesIn("Authentication required", toasts')
                   = CopiesIn("Authentication required", toasts) + 1
             /\ \A i \in 1..Len(pending') : pending'[i].written = <<>>
             /\ \A k \in 1..Len(completions') : completions'[k].written = <<>>]_vars

C12_Witness ==
    /\ ~user /\ ~mounted
    /\ CopiesIn("Authentication required", toasts) = 1
    /\ Cardinality(DOMAIN state.responses) >= 2
    /\ completions # <<>>

----------------------------------------------------------------------------
(* C13: when the tier lookup of a scored completion returns an error (no  *)
(* row, or more than one), the failure is notified, the session is        *)
(* completed with the computed score, and the risk tier stays none unless *)
(* another lookup of the session returned a row.                          *)
C13_NoTierMatch ==
    /\ CopiesIn("Failed to determine your risk assessment", toasts)
          = Cardinality({k \in 1..Len(completions) : completions[k].tier = "error"})
    /\ (Running /\ completions # <<>>) =>
          /\ state.quizCompleted
          /\ LastOf(completions).tier = "error" =>
                state.score = LastOf(completions).score
          /\ (\A k \in 1..Len(completions) : completions[k].tier # "ok")
                => state.riskAssessment = NoAssessment

C13_Witness ==
    /\ Running /\ state.quizCompleted
    /\ completions # <<>>
    /\ LastOf(completions).tier = "error"
    /\ state.score.v > 0
    /\ state.riskAssessment = NoAssessment
    /\ CopiesIn("Failed to determine your risk assessment", toasts) = 1

----------------------------------------------------------------------------
(* C14: while the session is not completed and no completion is in        *)
(* progress, the Response Store holds no row of the session.              *)
C14_NoWriteBeforeDone ==
    (~state.quizCompleted /\ pending = <<>>) => store = EmptyBag

C14_Witness ==
    /\ Running /\ user
    /\ ~state.quizCompleted
    /\ pending = <<>>
    /\ state.quizPhase = "specialized"
    /\ Cardinality(DOMAIN state.responses) >= 3
    /\ store = EmptyBag

----------------------------------------------------------------------------
(* C15: done is terminal: once quizCompleted is true the session state    *)
(* changes only by a restart.                                              *)
C15_DoneIsTerminal ==
    [][state.quizCompleted =>
          \/ state' = state
          \/ state' = [PostLoadState EXCEPT !.hasPositiveResponses = TRUE]]_vars

----------------------------------------------------------------------------
(* C16: while the session is not completed, currentQuestionIndex is an    *)
(* index of the active question set.                                       *)
C16_IndexValid ==
    ~state.quizCompleted =>
        /\ 0 <= state.currentQuestionIndex
        /\ state.currentQuestionIndex < Len(state.questions)

\* C16 as amended: the index is valid whenever the active question set is
\* not empty; the set is empty, with index 0, before the questions are
\* loaded and when the Question Repository gave no general question.
C16_IndexValidWhenQuestions ==
    ~state.quizCompleted =>
        /\ 0 <= state.currentQuestionIndex
        /\ state.questions # <<>> => state.currentQuestionIndex < Len(state.questions)
        /\ state.questions = <<>> =>
              /\ state.currentQuestionIndex = 0
              /\ state.isLoading \/ cfg = 0

C16_Witness ==
    /\ Running
    /\ ~state.quizCompleted
    /\ state.quizPhase = "specialized"
    /\ state.currentQuestionIndex = Len(state.questions) - 1
    /\ state.currentQuestionIndex > 0

----------------------------------------------------------------------------
(* C17: the active question set is the general question sequence or the   *)
(* specialized questions of the active candidate.                          *)
C17_ActiveSetShape ==
    \/ state.questions = state.generalQuestions
    \/ state.questions = SpecializedFor(state, state.currentCancerType)

----------------------------------------------------------------------------
(* C18: the candidate queue never contains the active candidate.          *)
C18_QueueExcludesActive ==
    ~Includes(state.cancerTypesQueue, state.currentCancerType)

C18_Witness ==
    /\ Running
    /\ state.quizPhase = "specialized"
    /\ state.currentCancerType # null
    /\ Len(state.cancerTypesQueue) >= 1
    /\ Len(state.detectedCancerTypes) >= 3

----------------------------------------------------------------------------
(* C19: when no label has a positive hint score at the end of the general *)
(* set, the completion that follows is the healthy one: no specialized    *)
(* phase, no score, no tier lookup.                                        *)
NoLabelScored(responses) ==
    analyzeGeneralResponses(responses, state.generalQuestions).detectedTypes
        = <<"general">>

C19_ZeroAccumulatorHealthy ==
    Running =>
        /\ \A i \in 1..Len(pending) :
              NoLabelScored(pending[i].full) => pending[i].kind = "healthy"
        /\ \A k \in 1..Len(completions) :
              NoLabelScored(completions[k].full) => completions[k].kind = "healthy"
        /\ state.detectedCancerTypes = <<"general">> =>
              /\ scored = 0
              /\ lookups = <<>>

----------------------------------------------------------------------------
----------------------------------------------------------------------------
(* Helpers of the scorer properties: the question under test, its answer, *)
(* and the score of the other answered question.                          *)
Tested == simple.specializedQuestions[1]

TestedDone == simple.quizCompleted /\ Tested.id \in DOMAIN simple.responses

TestedAnswer == simple.responses[Tested.id]

OthersScore == AnsweredQ.weight

----------------------------------------------------------------------------
(* C23: the score is a non-negative integer, whatever the answer.         *)
C23_ScoreNonNegativeInteger ==
    TestedDone => (simple.score.k = "fin" /\ simple.score.v >= 0)

----------------------------------------------------------------------------
(* C24: a range question with max > min contributes 0 when the answer is  *)
(* min and weight when the answer is max, given as number or as string.   *)
C24_RangeEndpoints ==
    (/\ TestedDone
     /\ Tested.question_type = "range"
     /\ Tested.options.max > Tested.options.min) =>
        /\ ToNumber(TestedAnswer) = Fin(Tested.options.min)
              => simple.score = Fin(OthersScore)
        /\ ToNumber(TestedAnswer) = Fin(Tested.options.max)
              => simple.score = Fin(OthersScore + Tested.weight)

----------------------------------------------------------------------------
(* C25: a select question with at least two choices contributes           *)
(* round(weight * i / (length - 1)) for the choice at 0-based position i: *)
(* 0 for the first choice and weight for the last.                        *)
PositionIn(choices, answer) ==
    CHOOSE i \in 0..(Len(choices) - 1) : choices[i + 1] = answer

C25_SelectByPosition ==
    (/\ TestedDone
     /\ Tested.question_type = "select"
     /\ Len(Tested.options.options) >= 2
     /\ TestedAnswer.t = "str"
     /\ Includes(Tested.options.options, TestedAnswer.s)) =>
        LET choices == Tested.options.options
            i == PositionIn(choices, TestedAnswer.s)
            twice == 2 * (Len(choices) - 1)
        IN  /\ simple.score.k = "fin"
            /\ simple.score.v - OthersScore
                  = (2 * Tested.weight * i + (Len(choices) - 1)) \div twice
            /\ i = 0 => simple.score.v = OthersScore
            /\ i = Len(choices) - 1 => simple.score.v = OthersScore + Tested.weight

C25_Witness ==
    /\ TestedDone
    /\ Tested.question_type = "select"
    /\ Len(Tested.options.options) = 3
    /\ TestedAnswer = Str("Sometimes")
    /\ Tested.weight = 3
    /\ simple.score = Fin(OthersScore + 2)

----------------------------------------------------------------------------
(* C26: a boolean question contributes weight when the answer is "Yes"    *)
(* and 0 for any other non-empty answer.                                   *)
C26_BooleanSentinel ==
    (TestedDone /\ Tested.question_type = "boolean") =>
        /\ TestedAnswer = Str("Yes") => simple.score = Fin(OthersScore + Tested.weight)
        /\ (TestedAnswer # Str("Yes") /\ TestedAnswer # Str(""))
              => simple.score = Fin(OthersScore)

C26_Witness ==
    /\ TestedDone
    /\ Tested.question_type = "boolean"
    /\ Tested.weight = MaxWeight
    /\ TestedAnswer = Str("Yes")
    /\ simple.score = Fin(OthersScore + MaxWeight)

----------------------------------------------------------------------------
(* C27: a range question with max = min contributes 0: the score is the   *)
(* sum of the other questions' contributions.                              *)
C27_DegenerateRangeIsZero ==
    (/\ TestedDone
     /\ Tested.question_type = "range"
     /\ Tested.options.max = Tested.options.min) =>
        simple.score = Fin(OthersScore)

----------------------------------------------------------------------------
(* C28: a select answer that is not among the choices contributes 0 and   *)
(* the other answered questions contribute as usual.                      *)
C28_UnknownOptionSkipped ==
    (/\ TestedDone
     /\ Tested.question_type = "select"
     /\ ~Includes(Tested.options.options, toString(TestedAnswer))) =>
        simple.score = Fin(OthersScore)

C28_Witness ==
    /\ TestedDone
    /\ Tested.question_type = "select"
    /\ Len(Tested.options.options) = 3
    /\ Tested.weight = MaxWeight
    /\ TestedAnswer = Str("Maybe")
    /\ simple.score = Fin(OthersScore)

----------------------------------------------------------------------------
(* Helpers of the resolver properties: a step that handles an answer, the *)
(* question and the answer it handles, and what the step shows of         *)
(* end-of-set (the general phase is analysed: the session completes, a    *)
(* completion is started, or the active set is replaced).                  *)
Answering == submitted' = Append(submitted, LastOf(submitted'))

AnsweredQuestion == state.questions[state.currentQuestionIndex + 1]

AnswerGiven == LastOf(submitted').value

PositionOfId(id) ==
    IF \E i \in 1..Len(state.questions) : state.questions[i].id = id
    THEN (CHOOSE i \in 1..Len(state.questions) : state.questions[i].id = id) - 1
    ELSE 0 - 1

AdvancedTo(index) ==
    /\ state' = [state EXCEPT
                    !.responses = Put(@, AnsweredQuestion.id, AnswerGiven),
                    !.currentQuestionIndex = index]
    /\ pending' = pending

EndOfSet ==
    /\ state'.currentQuestionIndex = state.currentQuestionIndex
         \/ state'.questions # state.questions
    /\ \/ state'.quizCompleted
       \/ Len(pending') > Len(pending)
       \/ state'.quizPhase # state.quizPhase

Resolved(index) ==
    IF index >= 0 /\ index < Len(state.questions)
    THEN AdvancedTo(index) ELSE EndOfSet

----------------------------------------------------------------------------
----------------------------------------------------------------------------
(* C22: when the rule that applies names an id that is not in the active  *)
(* set, the next question is the one at currentIndex + 1 when it exists.  *)
C22_MissingTargetSequential ==
    [][Answering =>
        LET rules == AnsweredQuestion.next_question_logic
            target == IF AnswerGiven.t = "str" /\ AnswerGiven.s \in DOMAIN rules
                      THEN rules[AnswerGiven.s]
                      ELSE IF "default" \in DOMAIN rules THEN rules["default"]
                      ELSE AnsweredQuestion.id
        IN  (/\ rules # NoLogic
             /\ PositionOfId(target) < 0
             /\ state.currentQuestionIndex + 1 < Len(state.questions))
              => AdvancedTo(state.currentQuestionIndex + 1)]_vars

----------------------------------------------------------------------------
(* C29: when the specialized phase ends with an empty queue, the score is *)
(* the scorer applied to the full answer mapping over the general         *)
(* questions followed by the specialized questions of the detected        *)
(* candidates; other questions do not contribute.                          *)
FinalQuestions ==
    state.generalQuestions \o
    SelectSeq(state.specializedQuestions,
              LAMBDA q : \E k \in 1..Len(state.detectedCancerTypes) :
                            state.detectedCancerTypes[k] = q.category)

C29_FinalScoreOverDetected ==
    /\ \A i \in 1..Len(pending) :
          (pending[i].kind = "final" /\ pending[i].pc = "lookup") =>
              pending[i].score = calculateRiskScore(pending[i].full, FinalQuestions)
    /\ (Running /\ state.quizCompleted /\ completions # <<>>
            /\ LastOf(completions).kind = "final") =>
          state.score = calculateRiskScore(LastOf(completions).full, FinalQuestions)

\* two candidates, both visited, every question answered "Yes"
C29_Witness ==
    /\ Running /\ cfg = 2
    /\ state.quizCompleted
    /\ completions # <<>> /\ LastOf(completions).kind = "final"
    /\ state.detectedCancerTypes = <<"skin", "brain">>
    /\ DOMAIN state.responses = {1, 2, 3, 10, 30}
    /\ state.score = Fin(4 + 4 + 6 + 8)

----------------------------------------------------------------------------
(* C30: when at most one candidate is detected, the single-candidate      *)
(* component presents the same questions as the multi-candidate one and   *)
(* finishes with the same score and the same tier-lookup scope.           *)
RichFinished == mounted /\ state.quizCompleted /\ pending = <<>>

SimpleCaughtUp == Len(simple.asked) = Len(submitted)

LookupScopes == [k \in 1..Len(lookups) |-> lookups[k].cancer_type]

C30_SimpleIsSubset ==
    (RichFinished /\ Len(state.detectedCancerTypes) <= 1) =>
        /\ ~SimpleCaughtUp => SimpleFollows
        /\ SimpleCaughtUp =>
              /\ simple.quizCompleted
              /\ simple.score = state.score
              /\ simple.queried = LookupScopes

----------------------------------------------------------------------------
(* C31: the calls between loadNextCancerType and                          *)
(* loadQuestionsForCancerType end in a non-empty specialized active set   *)
(* or in the completion, and every call of loadNextCancerType reads a     *)
(* queue strictly shorter than the call before it.                         *)
ReadsShorten ==
    \A k \in 2..Len(stack.reads) : Len(stack.reads[k]) < Len(stack.reads[k - 1])

C31_RecursionTerminates ==
    /\ <>(stack.pc \in {"active", "done"})
    /\ []ReadsShorten

----------------------------------------------------------------------------
(* C32: when the user keeps answering every presented question, the       *)
(* session is eventually completed, whatever the branch rules are.        *)
C32_EventuallyCompleted == <>state.quizCompleted

----------------------------------------------------------------------------
(* C33: in the specialized phase the detected candidates are the          *)
(* candidates made active so far, in order, followed by the queue; the    *)
(* active candidate is the last one made active; no candidate is lost or  *)
(* duplicated.                                                             *)
C33_QueueIsSuffix ==
    (Running /\ state.quizPhase = "specialized") =>
        /\ activated # <<>>
        /\ state.currentCancerType = LastOf(activated)
        /\ activated \o state.cancerTypesQueue = state.detectedCancerTypes
        /\ \A i, j \in 1..Len(state.detectedCancerTypes) :
              state.detectedCancerTypes[i] = state.detectedCancerTypes[j] => i = j

----------------------------------------------------------------------------
(* C34: the single-candidate component detects the fixed label with the   *)
(* strictly greatest sum of hint weights over the general questions whose *)
(* answer is neither empty (the empty string, or the number 0) nor "No";  *)
(* hints for other labels are ignored; on equal sums the label earliest   *)
(* in the fixed order wins; when every sum is zero the detected type is   *)
(* "general" and the quiz completes, scoring the general answers only.    *)
FixedLabels == <<"skin", "kidney", "brain", "oral", "breast">>

CountsAsSymptom(answer) ==
    answer # Str("") /\ answer # Num(0) /\ answer # Str("No")

RECURSIVE HintSumUpTo(_, _)
HintSumUpTo(label, n) ==
    IF n = 0 THEN 0
    ELSE LET question == simple.generalQuestions[n]
             hints == question.options.cancer_type_hints
             counted == /\ question.id \in DOMAIN simple.responses
                        /\ CountsAsSymptom(simple.responses[question.id])
                        /\ label \in DOMAIN hints
         IN  (IF counted THEN hints[label] ELSE 0) + HintSumUpTo(label, n - 1)

HintSum(label) == HintSumUpTo(label, Len(simple.generalQuestions))

C34_SimpleDetector ==
    simple.detectedCancerType # null =>
        IF \A i \in 1..Len(FixedLabels) : HintSum(FixedLabels[i]) = 0
        THEN /\ simple.detectedCancerType = "general"
             /\ simple.quizCompleted
             /\ simple.quizPhase = "general"
             /\ simple.score = calculateRiskScore(simple.responses,
                                                  simple.generalQuestions)
        ELSE \E i \in 1..Len(FixedLabels) :
                /\ simple.detectedCancerType = FixedLabels[i]
                /\ \A j \in 1..Len(FixedLabels) :
                      HintSum(FixedLabels[j]) <= HintSum(FixedLabels[i])
                /\ \A j \in 1..(i - 1) :
                      HintSum(FixedLabels[j]) < HintSum(FixedLabels[i])

\* skin and kidney have the same positive sum, a lung hint was given too,
\* and skin is detected
C34_Witness ==
    /\ simple.detectedCancerType = "skin"
    /\ HintSum("skin") = HintSum("kidney")
    /\ HintSum("skin") > 0
    /\ \E n \in 1..Len(simple.generalQuestions) :
          /\ "lung" \in DOMAIN simple.generalQuestions[n].options.cancer_type_hints
          /\ n \in DOMAIN simple.responses
          /\ simple.responses[n] = Str("Yes")

----------------------------------------------------------------------------
(* C35: no onUploadComplete callback is delivered for a file that         *)
(* resetUpload has discarded: a reset while the timers of the simulated   *)
(* upload are running cancels them.                                        *)
C35_NoCallbackAfterReset ==
    \A k \in 1..Len(upload.delivered) : ~upload.delivered[k].discarded

====
